---- MODULE Spec2Model ----
(***************************************************************************)
(* Model of the federated-training edge function (server-stateful variant, *)
(* src/unnamed/part_001 lines 514-806): the in-memory trainingSessions map *)
(* and the request handler passed to serve().                              *)
(*                                                                         *)
(* Numbers: accuracies and losses are held in units of 1/10000 (0.85 is    *)
(* 8500); a Math.random() result is held in units of 1/1000 (0..999).      *)
(* An optional request field is a sequence: <<>> when the field is absent, *)
(* <<v>> when it carries v.  An optional record is a set: {} or {r}.       *)
(*                                                                         *)
(* The handler awaits only getUser() and req.json(); everything after the  *)
(* body has been parsed runs without a suspension point, so one request is *)
(* one step of Spec.  SpecConcurrent suspends each caller's handler at the *)
(* two awaits.  SpecSimulate applies simulateRoundProgress of either       *)
(* variant to sessions with any prior node accuracy.  SpecHook is the      *)
(* client hook useFederatedTraining (src/src/hooks/useBackendConnection.ts)*)
(* against the stateless variant (src/unnamed/part_001 lines 280-512); its *)
(* isConnected, isLoading and error fields are left out.                   *)
(* SpecHookFair is that hook left alone after one start, with fairness on  *)
(* the interval, the renders and the responses.  SpecTwin runs the hook,   *)
(* one call at a time, against both variants side by side.                 *)
(***************************************************************************)
EXTENDS Integers, Sequences, FiniteSets, TLC

VARIABLES
    trainingSessions,   \* the Map from round id to session
    response,           \* the last request served and the Response returned
    advanceRun,         \* history: the advance requests served since the last start
    pauseSeq,           \* history: progress of a pause, resume, advance sequence
    sim,                \* a session handed to simulateRoundProgress on its own
    inflight,           \* per caller, the request whose handler is suspended at an await
    state,              \* useFederatedTraining: the value held by useState
    rendered,           \* the state value the callbacks of the last render close over
    pollingRef,         \* pollingRef.current: no interval or the one last created
    timers,             \* the intervals that have been set and not cleared
    calls,              \* the hook's async calls that are suspended at an await
    hookLog,            \* starts made, ids issued, whether the component is
                        \* mounted; history: whether polling is to be at rest,
                        \* whether a pause is in force, whether a reset is
    twin                \* the useState value of a second hook, which runs
                        \* against the stateful function

\* The state of the stateful edge function.
serverVars == <<trainingSessions, response, advanceRun, pauseSeq>>

\* The state the request handlers of the stateful edge function never touch.
\* The state of the client hook.
hookVars == <<state, rendered, pollingRef, timers, calls, hookLog>>

offServer == <<sim, inflight, hookVars, twin>>

vars == <<serverVars, offServer>>

(* ---------------------------- bounds ---------------------------------- *)

\* Number of sessions the store may hold (ids that randomUUID may return).
MaxSessions == 1

\* Largest max_rounds a start request carries explicitly.
MaxRoundsArg == 3

\* Number of Math.random() streams a simulated round may draw from.
NumStreams == 2

\* Rounds simulated per session before the model stops advancing it.
MaxSimulatedRounds == 3

(* ------------------------ program constants --------------------------- *)

DefaultMaxRounds == 10

InitialAccuracy == 8500

InitialLoss == 5000

InitialTotalSamples == 61700

NodeAccuracyFloor == 8500

NodeAccuracyCeil == 9900

AccuracyCeil == 9800

LossFloor == 200

(* --------------------------- randomness -------------------------------- *)

\* One simulated round consumes 14 results of Math.random(): three per node
\* (status, accuracy delta, contribution), then the accuracy noise and the
\* loss noise.
DrawsPerRound == 14

\* The j-th draw of stream i, in thousandths.
Draw(i, j) == ((i * 641) + (j * 635) + (i * j * 91)) % 1000

RandomStreams == { [j \in 1..DrawsPerRound |-> Draw(i, j)] : i \in 1..NumStreams }

(* ----------------------------- nodes ---------------------------------- *)

generateNodes ==
    << [id |-> "node1", name |-> "Node Alpha", status |-> "active",
        accuracy |-> 9250, samples |-> 15000, contribution |-> 0],
       [id |-> "node2", name |-> "Node Beta", status |-> "active",
        accuracy |-> 9410, samples |-> 18500, contribution |-> 0],
       [id |-> "node3", name |-> "Node Gamma", status |-> "syncing",
        accuracy |-> 9180, samples |-> 12000, contribution |-> 0],
       [id |-> "node4", name |-> "Node Delta", status |-> "idle",
        accuracy |-> 9320, samples |-> 16200, contribution |-> 0] >>

Min(a, b) == IF a <= b THEN a ELSE b

Max(a, b) == IF a >= b THEN a ELSE b

RECURSIVE SumSamples(_)
SumSamples(nodes) ==
    IF nodes = <<>> THEN 0
    ELSE Head(nodes).samples + SumSamples(Tail(nodes))

\* if (rand < 0.7) active; else if (rand < 0.9) syncing; else idle
NodeStatus(rand) ==
    IF rand < 700 THEN "active"
    ELSE IF rand < 900 THEN "syncing"
    ELSE "idle"

\* (Math.random() * 0.02) - 0.005
AccuracyDelta(rand) == ((rand * 200) \div 1000) - 50

\* Mutant of NewAccuracy: the perturbed accuracy is not clamped.
NewAccuracy_Unclamped(accuracy, rand) == accuracy + AccuracyDelta(rand)

\* Math.min(0.99, Math.max(0.85, node.accuracy + accuracyDelta))
NewAccuracy(accuracy, rand) ==
    Min(NodeAccuracyCeil, Max(NodeAccuracyFloor, accuracy + AccuracyDelta(rand)))

\* Math.floor(Math.random() * 100)
Contribution(rand) == (rand * 100) \div 1000

\* Mutant of UpdateNode: the round's contribution is added to the samples.
UpdateNode_Resample(node, i, rnd) ==
    [node EXCEPT !.status = NodeStatus(rnd[3 * i - 2]),
                 !.accuracy = NewAccuracy(node.accuracy, rnd[3 * i - 1]),
                 !.contribution = Contribution(rnd[3 * i]),
                 !.samples = @ + Contribution(rnd[3 * i])]

\* The callback of session.nodes.map: node i consumes draws 3i-2, 3i-1, 3i.
UpdateNode(node, i, rnd) ==
    [node EXCEPT !.status = NodeStatus(rnd[3 * i - 2]),
                 !.accuracy = NewAccuracy(node.accuracy, rnd[3 * i - 1]),
                 !.contribution = Contribution(rnd[3 * i])]

\* Mutant of GlobalAccuracy: every round adds 0.12 and nothing caps the sum.
GlobalAccuracy_PerRoundGain(roundNumber, maxRounds, rand) ==
    8500 + (roundNumber * 1200) + ((rand * 200) \div 1000) - 100

\* Math.min(0.98, 0.85 + (roundNumber / max_rounds) * 0.12 + (rand * 0.02 - 0.01))
\* (roundNumber / 0 is Infinity in JavaScript, and the minimum is the ceiling.)
GlobalAccuracy(roundNumber, maxRounds, rand) ==
    IF maxRounds = 0 THEN AccuracyCeil
    ELSE Min(AccuracyCeil,
             8500 + ((roundNumber * 1200) \div maxRounds) + ((rand * 200) \div 1000) - 100)

\* Math.max(0.02, 0.5 - (roundNumber / max_rounds) * 0.45 + rand * 0.05)
\* (roundNumber / 0 is Infinity in JavaScript, and the maximum is the floor.)
GlobalLoss(roundNumber, maxRounds, rand) ==
    IF maxRounds = 0 THEN LossFloor
    ELSE Max(LossFloor,
             5000 - ((roundNumber * 4500) \div maxRounds) + ((rand * 500) \div 1000))

\* Mutant of simulateRoundProgress: the sample total is added to the old one.
simulateRoundProgress_Accumulate(session, roundNumber, rnd) ==
    LET newNodes == [i \in 1..Len(session.nodes) |->
                        UpdateNode(session.nodes[i], i, rnd)]
    IN [session EXCEPT
          !.nodes = newNodes,
          !.accuracy = GlobalAccuracy(roundNumber, session.max_rounds, rnd[13]),
          !.loss = GlobalLoss(roundNumber, session.max_rounds, rnd[14]),
          !.current_round = roundNumber,
          !.total_samples = session.total_samples + SumSamples(newNodes)]

\* simulateRoundProgress(session, roundNumber) of the stateful function; the
\* status field is left as it was (the caller sets it).
simulateRoundProgress(session, roundNumber, rnd) ==
    LET newNodes == [i \in 1..Len(session.nodes) |->
                        UpdateNode(session.nodes[i], i, rnd)]
    IN [session EXCEPT
          !.nodes = newNodes,
          !.accuracy = GlobalAccuracy(roundNumber, session.max_rounds, rnd[13]),
          !.loss = GlobalLoss(roundNumber, session.max_rounds, rnd[14]),
          !.current_round = roundNumber,
          !.total_samples = SumSamples(newNodes)]


\* simulateRoundProgress(currentRound, maxRounds, nodes) of the stateless
\* function: the same node update and curves, returned as a new record.
simulateRoundProgressPure(currentRound, maxRounds, nodes, rnd) ==
    LET updatedNodes == [i \in 1..Len(nodes) |-> UpdateNode(nodes[i], i, rnd)]
        nextRound == currentRound + 1
    IN [current_round |-> nextRound,
        accuracy |-> GlobalAccuracy(nextRound, maxRounds, rnd[13]),
        loss |-> GlobalLoss(nextRound, maxRounds, rnd[14]),
        total_samples |-> SumSamples(updatedNodes),
        nodes |-> updatedNodes,
        status |-> IF nextRound >= maxRounds THEN "completed" ELSE "running"]

(* ---------------------------- requests -------------------------------- *)

Actions == {"health", "start", "status", "advance", "pause", "resume", "nodes", "bogus"}

\* Ids randomUUID may return.
UUIDs == 1..MaxSessions

\* An id with the form of a round id that randomUUID never returned.
UnknownId == MaxSessions + 1

\* The round_id field of a request: absent, or one of the ids.
RoundIdArgs == {<<>>} \cup { <<i>> : i \in 1..UnknownId }

\* The max_rounds field of a start request: absent, or an integer.
MaxRoundsArgs == {<<>>} \cup { <<n>> : n \in (-1)..MaxRoundsArg }

\* json is FALSE when the body is not JSON (req.json() rejects).
Request(method, action, authed, round_id, max_rounds) ==
    [method |-> method, action |-> action, authed |-> authed, json |-> TRUE,
     round_id |-> round_id, max_rounds |-> max_rounds]

\* new Response(JSON.stringify(body), { status: code }); the fields a body
\* lacks are "", <<>> or {}.
Reply(req, code) ==
    [req |-> req, code |-> code, error |-> "", status |-> "",
     round_id |-> <<>>, session |-> {}, nodes |-> <<>>, message |-> ""]

ErrorReply(req, code, msg) == [Reply(req, code) EXCEPT !.error = msg]

\* JSON.stringify({ round_id, ...session })
SessionReply(req, id, session) ==
    [Reply(req, 200) EXCEPT !.round_id = <<id>>, !.session = {session},
                            !.status = session.status]

NoRequest == Request("none", "none", FALSE, <<>>, <<>>)

(* ----------------------------- store ---------------------------------- *)

EmptyStore == [id \in {} |-> {}]

\* trainingSessions.get(id) is defined
Has(store, rid) == rid # <<>> /\ rid[1] \in DOMAIN store

\* trainingSessions.set(id, session)
Put(store, id, session) ==
    [k \in (DOMAIN store) \cup {id} |-> IF k = id THEN session ELSE store[k]]

(* ---------------------------- histories -------------------------------- *)

NoRun == [id |-> <<>>, count |-> 0]

NoSeq == [id |-> <<>>, phase |-> 0, round |-> 0]

\* A served advance request extends the run of the session it addresses.
RunAfterAdvance(run, rid) ==
    IF run.id = rid
    THEN [run EXCEPT !.count = Min(run.count + 1, MaxSimulatedRounds + 1)]
    ELSE run

\* A pause of a stored session ends that session's run.
RunAfterPause(run, rid) == IF run.id = rid THEN NoRun ELSE run

\* A pause of a stored running session that has rounds left opens a sequence.
SeqAfterPause(seq, rid, session) ==
    IF session.status = "running" /\ session.current_round < session.max_rounds
    THEN [id |-> rid, phase |-> 1, round |-> session.current_round]
    ELSE IF seq.id = rid THEN NoSeq ELSE seq

SeqAfterResume(seq, rid) ==
    IF seq.id # rid THEN seq
    ELSE IF seq.phase = 1 THEN [seq EXCEPT !.phase = 2]
    ELSE NoSeq

SeqAfterAdvance(seq, rid) ==
    IF seq.id # rid THEN seq
    ELSE IF seq.phase = 2 THEN [seq EXCEPT !.phase = 3]
    ELSE NoSeq

\* const trainingSessions = new Map(): the store is empty, nothing served yet.
ServerInit ==
    /\ trainingSessions = EmptyStore
    /\ response = Reply(NoRequest, 0)
    /\ advanceRun = NoRun
    /\ pauseSeq = NoSeq

\* No session has been handed to simulateRoundProgress on its own.
NoSim == [variant |-> "none", prior |-> 0, rounds |-> 0, session |-> {}]

\* Number of callers whose requests may be in flight at once.
MaxCallers == 2

Callers == 1..MaxCallers

\* No handler invocation is suspended.
NoCalls ==
    [c \in Callers |-> [phase |-> "idle", req |-> NoRequest, seen |-> 0, wrote |-> 0]]

\* Number of hook calls that may be suspended at once.
MaxInFlight == 2

\* The request body of a hook call; a call that sends fewer fields leaves
\* the others at these values.
NoBody ==
    [round_id |-> <<>>, current_round |-> 0, max_rounds |-> 0,
     nodes |-> <<>>, is_paused |-> FALSE]

NoCall == [kind |-> "none", phase |-> "none", body |-> NoBody]

\* useState({ ..., isTraining: false, roundId: null, session: null })
InitialState == [isTraining |-> FALSE, roundId |-> <<>>, session |-> {}]

\* The hook as mounted: useState's initial value, useRef(null), no call made.
HookInit ==
    /\ state = InitialState
    /\ rendered = InitialState
    /\ pollingRef = {}
    /\ timers = {}
    /\ calls = [k \in 1..MaxInFlight |-> NoCall]
    /\ hookLog = [starts |-> 0, ids |-> 0, halted |-> TRUE, mounted |-> TRUE,
                  paused |-> FALSE, reset |-> TRUE]

Init ==
    /\ ServerInit
    /\ sim = NoSim
    /\ inflight = NoCalls
    /\ HookInit
    /\ twin = InitialState

(* ---------------------------- handlers -------------------------------- *)

\* if (req.method === 'OPTIONS') return new Response(null, ...)
Preflight ==
    \E action \in Actions, authed \in BOOLEAN :
        /\ UNCHANGED offServer
        /\ response' = Reply(Request("OPTIONS", action, authed, <<>>, <<>>), 200)
        /\ UNCHANGED <<trainingSessions, advanceRun, pauseSeq>>

\* Mutant of Unauthorized: the pause branch runs before the 401 is returned.
Unauthorized_AfterDispatch ==
    \E method \in {"GET", "POST"}, action \in Actions, rid \in RoundIdArgs :
        /\ UNCHANGED offServer
        /\ response' = ErrorReply(Request(method, action, FALSE, rid, <<>>),
                                  401, "Unauthorized")
        /\ trainingSessions' =
              IF action = "pause" /\ method = "POST" /\ Has(trainingSessions, rid)
              THEN Put(trainingSessions, rid[1],
                       [trainingSessions[rid[1]] EXCEPT !.status = "paused"])
              ELSE trainingSessions
        /\ UNCHANGED <<advanceRun, pauseSeq>>

\* if (authError || !user) return 401
Unauthorized ==
    \E method \in {"GET", "POST"}, action \in Actions, rid \in RoundIdArgs :
        /\ UNCHANGED offServer
        /\ response' = ErrorReply(Request(method, action, FALSE, rid, <<>>),
                                  401, "Unauthorized")
        /\ UNCHANGED <<trainingSessions, advanceRun, pauseSeq>>

\* if (action === 'health')
Health ==
    \E method \in {"GET", "POST"} :
        /\ UNCHANGED offServer
        /\ response' = [Reply(Request(method, "health", TRUE, <<>>, <<>>), 200)
                           EXCEPT !.status = "healthy"]
        /\ UNCHANGED <<trainingSessions, advanceRun, pauseSeq>>

\* await req.json() rejects on a body that is not JSON; the catch block
\* answers 500.
ParseFailure ==
    \E action \in {"start", "advance", "pause", "resume"} :
        /\ UNCHANGED offServer
        /\ response' = ErrorReply([Request("POST", action, TRUE, <<>>, <<>>)
                                      EXCEPT !.json = FALSE],
                                  500, "Unexpected token")
        /\ UNCHANGED <<trainingSessions, advanceRun, pauseSeq>>

\* Mutant of MaxRoundsOf: the requested value is ignored.
MaxRoundsOf_AlwaysDefault(arg) == DefaultMaxRounds

\* const { max_rounds = 10 } = body
MaxRoundsOf(arg) == IF arg = <<>> THEN DefaultMaxRounds ELSE arg[1]

\* Mutant of NewSession: total_samples starts at zero.
NewSession_NoTotal(max_rounds) ==
    [status |-> "running",
     current_round |-> 0,
     max_rounds |-> max_rounds,
     accuracy |-> InitialAccuracy,
     loss |-> InitialLoss,
     total_samples |-> 0,
     nodes |-> generateNodes]

\* The session literal of the start handler.
NewSession(max_rounds) ==
    [status |-> "running",
     current_round |-> 0,
     max_rounds |-> max_rounds,
     accuracy |-> InitialAccuracy,
     loss |-> InitialLoss,
     total_samples |-> InitialTotalSamples,
     nodes |-> generateNodes]

\* if (action === 'start' && req.method === 'POST')
Start ==
    \E mr \in MaxRoundsArgs, roundId \in UUIDs \ DOMAIN trainingSessions :
        LET req == Request("POST", "start", TRUE, <<>>, mr)
            session == NewSession(MaxRoundsOf(mr))
        IN /\ trainingSessions' = Put(trainingSessions, roundId, session)
           /\ UNCHANGED offServer
           /\ response' = [SessionReply(req, roundId, session) EXCEPT
                              !.status = "success",
                              !.message = "Federated training started"]
           /\ advanceRun' = [id |-> <<roundId>>, count |-> 0]
           /\ UNCHANGED pauseSeq

\* Mutant of StatusReply: the reply carries a freshly seeded session.
StatusReply_Seeded(req, store) ==
    LET rid == req.round_id
    IN IF rid = <<>> THEN ErrorReply(req, 400, "round_id is required")
       ELSE IF ~Has(store, rid) THEN ErrorReply(req, 404, "Training session not found")
       ELSE SessionReply(req, rid[1], NewSession(store[rid[1]].max_rounds))

\* The reply of the status handler.
StatusReply(req, store) ==
    LET rid == req.round_id
    IN IF rid = <<>> THEN ErrorReply(req, 400, "round_id is required")
       ELSE IF ~Has(store, rid) THEN ErrorReply(req, 404, "Training session not found")
       ELSE SessionReply(req, rid[1], store[rid[1]])

\* if (action === 'status')
Status ==
    \E method \in {"GET", "POST"}, rid \in RoundIdArgs :
        LET req == Request(method, "status", TRUE, rid, <<>>)
        IN /\ response' = StatusReply(req, trainingSessions)
           /\ UNCHANGED offServer
           /\ UNCHANGED <<trainingSessions, advanceRun, pauseSeq>>

\* Mutant of MarkCompleted: the comparison is > instead of >=.
MarkCompleted_OffByOne(session) ==
    IF session.current_round > session.max_rounds
    THEN [session EXCEPT !.status = "completed"]
    ELSE session

\* if (updatedSession.current_round >= updatedSession.max_rounds)
\*     updatedSession.status = 'completed'
MarkCompleted(session) ==
    IF session.current_round >= session.max_rounds
    THEN [session EXCEPT !.status = "completed"]
    ELSE session

\* Mutant of AdvanceSession: a completed session starts over at round 0.
AdvanceSession_Restart(session, rnd) ==
    IF session.status = "paused" THEN session
    ELSE IF session.current_round >= session.max_rounds
         THEN [session EXCEPT !.status = "running", !.current_round = 0]
    ELSE MarkCompleted(simulateRoundProgress(session, session.current_round + 1, rnd))

\* Mutant of AdvanceSession: the check for a completed session is missing.
AdvanceSession_NoCompletedCheck(session, rnd) ==
    IF session.status = "paused" THEN session
    ELSE MarkCompleted(simulateRoundProgress(session, session.current_round + 1, rnd))

\* Mutant of AdvanceSession: the check for a paused session is missing.
AdvanceSession_NoPausedCheck(session, rnd) ==
    IF session.current_round >= session.max_rounds
    THEN [session EXCEPT !.status = "completed"]
    ELSE MarkCompleted(simulateRoundProgress(session, session.current_round + 1, rnd))

\* The session the advance handler leaves in the store for a stored session.
AdvanceSession(session, rnd) ==
    IF session.status = "paused" THEN session
    ELSE IF session.current_round >= session.max_rounds
         THEN [session EXCEPT !.status = "completed"]
    ELSE MarkCompleted(simulateRoundProgress(session, session.current_round + 1, rnd))

\* Mutant of AdvanceStore: an unknown round id gets a fresh session.
AdvanceStore_Fabricate(store, rid, rnd) ==
    IF Has(store, rid)
    THEN Put(store, rid[1], AdvanceSession(store[rid[1]], rnd))
    ELSE IF rid # <<>> THEN Put(store, rid[1], NewSession(DefaultMaxRounds))
    ELSE store

\* The store the advance handler leaves.
\* Mutant of AdvanceStore: the round is simulated from the session as start
\* left it (a lookup made before the other requests wrote), not from the
\* stored one.
AdvanceStore_StaleRead(store, rid, rnd) ==
    IF Has(store, rid)
    THEN Put(store, rid[1], AdvanceSession(NewSession(store[rid[1]].max_rounds), rnd))
    ELSE store

AdvanceStore(store, rid, rnd) ==
    IF Has(store, rid)
    THEN Put(store, rid[1], AdvanceSession(store[rid[1]], rnd))
    ELSE store

\* The reply of the advance handler; after is the store it leaves.
AdvanceReply(req, store, after) ==
    LET rid == req.round_id
    IN IF rid = <<>> THEN ErrorReply(req, 400, "round_id is required")
       ELSE IF ~Has(store, rid) THEN ErrorReply(req, 404, "Training session not found")
       ELSE [SessionReply(req, rid[1], after[rid[1]]) EXCEPT
                !.message = IF store[rid[1]].status = "paused"
                            THEN "Training is paused" ELSE ""]

\* if (action === 'advance' && req.method === 'POST')
Advance ==
    \E rid \in RoundIdArgs, rnd \in RandomStreams :
        LET req == Request("POST", "advance", TRUE, rid, <<>>)
            found == Has(trainingSessions, rid)
            after == AdvanceStore(trainingSessions, rid, rnd)
        IN /\ \A id \in DOMAIN after : after[id].current_round <= MaxSimulatedRounds
           /\ trainingSessions' = after
           /\ UNCHANGED offServer
           /\ response' = AdvanceReply(req, trainingSessions, after)
           /\ advanceRun' = IF found THEN RunAfterAdvance(advanceRun, rid) ELSE advanceRun
           /\ pauseSeq' = IF found THEN SeqAfterAdvance(pauseSeq, rid) ELSE pauseSeq

\* The session the pause handler leaves in the store for a stored session.
PauseSession(session) == [session EXCEPT !.status = "paused"]

\* The store the pause handler leaves.
PauseStore(store, rid) ==
    IF Has(store, rid) THEN Put(store, rid[1], PauseSession(store[rid[1]])) ELSE store

\* JSON.stringify({ status: 'paused', round_id })
PauseReply(req) ==
    [Reply(req, 200) EXCEPT !.status = "paused", !.round_id = req.round_id]

\* if (action === 'pause' && req.method === 'POST')
Pause ==
    \E rid \in RoundIdArgs :
        LET req == Request("POST", "pause", TRUE, rid, <<>>)
            found == Has(trainingSessions, rid)
        IN /\ trainingSessions' = PauseStore(trainingSessions, rid)
           /\ UNCHANGED offServer
           /\ response' = PauseReply(req)
           /\ advanceRun' = IF found THEN RunAfterPause(advanceRun, rid) ELSE advanceRun
           /\ pauseSeq' = IF found
                          THEN SeqAfterPause(pauseSeq, rid, trainingSessions[rid[1]])
                          ELSE pauseSeq

\* Mutant of ResumeSession: the status is not written.
ResumeSession_Stuck(session) == session

\* The session the resume handler leaves in the store for a stored session.
ResumeSession(session) ==
    IF session.status = "paused" THEN [session EXCEPT !.status = "running"]
    ELSE session

\* The store the resume handler leaves.
ResumeStore(store, rid) ==
    IF Has(store, rid) THEN Put(store, rid[1], ResumeSession(store[rid[1]])) ELSE store

\* JSON.stringify({ status: 'running', round_id })
ResumeReply(req) ==
    [Reply(req, 200) EXCEPT !.status = "running", !.round_id = req.round_id]

\* if (action === 'resume' && req.method === 'POST')
Resume ==
    \E rid \in RoundIdArgs :
        LET req == Request("POST", "resume", TRUE, rid, <<>>)
            found == Has(trainingSessions, rid)
        IN /\ trainingSessions' = ResumeStore(trainingSessions, rid)
           /\ UNCHANGED offServer
           /\ response' = ResumeReply(req)
           /\ pauseSeq' = IF found THEN SeqAfterResume(pauseSeq, rid) ELSE pauseSeq
           /\ UNCHANGED advanceRun

\* if (action === 'nodes')
Nodes ==
    \E method \in {"GET", "POST"}, rid \in RoundIdArgs :
        LET req == Request(method, "nodes", TRUE, rid, <<>>)
        IN /\ response' =
                [Reply(req, 200) EXCEPT !.nodes =
                    IF Has(trainingSessions, rid)
                    THEN trainingSessions[rid[1]].nodes
                    ELSE generateNodes]
           /\ UNCHANGED offServer
           /\ UNCHANGED <<trainingSessions, advanceRun, pauseSeq>>

\* The final return: no branch matched (an unknown action, or one of the
\* POST-only actions sent with another method).
InvalidAction ==
    \E method \in {"GET", "POST"}, action \in Actions :
        /\ \/ action = "bogus"
           \/ action \in {"start", "advance", "pause", "resume"} /\ method # "POST"
        /\ UNCHANGED offServer
        /\ response' = ErrorReply(Request(method, action, TRUE, <<>>, <<>>),
                                  400, "Invalid action")
        /\ UNCHANGED <<trainingSessions, advanceRun, pauseSeq>>

Next ==
    \/ Preflight
    \/ Unauthorized
    \/ Health
    \/ ParseFailure
    \/ Start
    \/ Status
    \/ Advance
    \/ Pause
    \/ Resume
    \/ Nodes
    \/ InvalidAction

Spec == Init /\ [][Next]_vars

(* ----------------- simulateRoundProgress on its own ------------------- *)

\* Largest max_rounds of a session handed to simulateRoundProgress.
MaxRoundsSim == 3

\* Accuracies the nodes may hold before a round (the stateless function
\* takes the nodes from the request body, so any number may arrive).
PriorAccuracies == {0, 8400, 8500, 9250, 9900, 10000}

\* Math.random() results a round may draw: both ends of the range and the
\* draw that gives a node accuracy perturbation of zero.
RandomDraws == {0, 250, 999}

\* The two edge functions.
Variants == {"stateful", "stateless"}

\* The seeded nodes, each holding the given accuracy.
NodesWithAccuracy(accuracy) ==
    [i \in 1..Len(generateNodes) |-> [generateNodes[i] EXCEPT !.accuracy = accuracy]]

\* The Math.random() results of one round: nodes 1 and 3 draw ra for their
\* accuracy, nodes 2 and 4 the mirrored draw; rg and rl are the noise of the
\* global accuracy and of the loss.
SimStream(ra, rg, rl) ==
    [j \in 1..DrawsPerRound |->
        IF j \in {2, 8} THEN ra
        ELSE IF j \in {5, 11} THEN 999 - ra
        ELSE IF j = 13 THEN rg
        ELSE IF j = 14 THEN rl
        ELSE 500]

\* A session at round 0 whose nodes hold any prior accuracy.
SimInit ==
    /\ ServerInit
    /\ \E variant \in Variants, prior \in PriorAccuracies, max_rounds \in 1..MaxRoundsSim :
          sim = [variant |-> variant, prior |-> prior, rounds |-> 0,
                 session |-> {[NewSession(max_rounds) EXCEPT
                                  !.nodes = NodesWithAccuracy(prior)]}]
    /\ inflight = NoCalls
    /\ HookInit
    /\ twin = InitialState

\* simulateRoundProgress(session, nextRound) as the stateful advance handler
\* calls it, for a session below its last round.
SimulateStateful ==
    /\ sim.variant = "stateful"
    /\ \E session \in sim.session, ra \in RandomDraws, rg \in RandomDraws, rl \in RandomDraws :
          /\ session.current_round < session.max_rounds
          /\ sim' = [sim EXCEPT
                        !.rounds = @ + 1,
                        !.session = {simulateRoundProgress(session,
                                        session.current_round + 1,
                                        SimStream(ra, rg, rl))}]
    /\ UNCHANGED <<serverVars, inflight, hookVars, twin>>

\* simulateRoundProgress(current_round, max_rounds, nodes) as the stateless
\* advance handler calls it, the caller keeping what the function returns.
SimulateStateless ==
    /\ sim.variant = "stateless"
    /\ \E session \in sim.session, ra \in RandomDraws, rg \in RandomDraws, rl \in RandomDraws :
          LET progress == simulateRoundProgressPure(session.current_round,
                                                    session.max_rounds,
                                                    session.nodes,
                                                    SimStream(ra, rg, rl))
          IN /\ session.current_round < session.max_rounds
             /\ sim' = [sim EXCEPT
                           !.rounds = @ + 1,
                           !.session = {[session EXCEPT
                                            !.current_round = progress.current_round,
                                            !.accuracy = progress.accuracy,
                                            !.loss = progress.loss,
                                            !.total_samples = progress.total_samples,
                                            !.nodes = progress.nodes,
                                            !.status = progress.status]}]
    /\ UNCHANGED <<serverVars, inflight, hookVars, twin>>

SimNext ==
    \/ SimulateStateful
    \/ SimulateStateless

SpecSimulate == SimInit /\ [][SimNext]_vars

(* ------------------------ concurrent callers -------------------------- *)

\* The state of caller c's handler invocation.
Call(phase, req, seen, wrote) ==
    [phase |-> phase, req |-> req, seen |-> seen, wrote |-> wrote]

\* session.current_round of the stored session, 0 when there is none.
StoredRound(store, rid) == IF Has(store, rid) THEN store[rid[1]].current_round ELSE 0

\* A start request arrives: its handler runs up to `await getUser()`.
ArriveStart(c) ==
    /\ inflight[c].phase \in {"idle", "done"}
    /\ \E n \in 1..MaxRoundsArg :
          inflight' = [inflight EXCEPT ![c] =
              Call("getUser", Request("POST", "start", TRUE, <<>>, <<n>>), 0, 0)]
    /\ UNCHANGED <<serverVars, sim, hookVars, twin>>

\* An advance request arrives, for an id that start has returned: its handler
\* runs up to `await getUser()`.  seen records the round the store holds at
\* that moment.
ArriveAdvance(c) ==
    /\ inflight[c].phase \in {"idle", "done"}
    /\ \E id \in DOMAIN trainingSessions :
          inflight' = [inflight EXCEPT ![c] =
              Call("getUser", Request("POST", "advance", TRUE, <<id>>, <<>>),
                   StoredRound(trainingSessions, <<id>>), 0)]
    /\ UNCHANGED <<serverVars, sim, hookVars, twin>>

\* getUser() resolves with a user: the handler runs up to `await req.json()`.
GetUserResolves(c) ==
    /\ inflight[c].phase = "getUser"
    /\ inflight' = [inflight EXCEPT ![c].phase = "json"]
    /\ UNCHANGED <<serverVars, sim, hookVars, twin>>

\* req.json() resolves in a start handler: the rest of the handler runs.
HandleStart(c) ==
    /\ inflight[c].phase = "json"
    /\ inflight[c].req.action = "start"
    /\ \E roundId \in UUIDs \ DOMAIN trainingSessions :
          LET req == inflight[c].req
              session == NewSession(MaxRoundsOf(req.max_rounds))
          IN /\ trainingSessions' = Put(trainingSessions, roundId, session)
             /\ response' = [SessionReply(req, roundId, session) EXCEPT
                                !.status = "success",
                                !.message = "Federated training started"]
             /\ advanceRun' = [id |-> <<roundId>>, count |-> 0]
             /\ inflight' = [inflight EXCEPT ![c].phase = "done"]
    /\ UNCHANGED <<pauseSeq, sim, hookVars, twin>>

\* req.json() resolves in an advance handler: lookup, checks, simulation and
\* trainingSessions.set run with no await between them.
HandleAdvance(c) ==
    /\ inflight[c].phase = "json"
    /\ inflight[c].req.action = "advance"
    /\ \E rnd \in RandomStreams :
          LET req == inflight[c].req
              rid == req.round_id
              found == Has(trainingSessions, rid)
              after == AdvanceStore(trainingSessions, rid, rnd)
          IN /\ trainingSessions' = after
             /\ response' = AdvanceReply(req, trainingSessions, after)
             /\ advanceRun' = IF found THEN RunAfterAdvance(advanceRun, rid) ELSE advanceRun
             /\ pauseSeq' = IF found THEN SeqAfterAdvance(pauseSeq, rid) ELSE pauseSeq
             /\ inflight' = [inflight EXCEPT
                                ![c].phase = "done",
                                ![c].wrote = StoredRound(after, rid)]
    /\ UNCHANGED <<sim, hookVars, twin>>

ConcurrentNext ==
    \E c \in Callers :
        \/ ArriveStart(c)
        \/ ArriveAdvance(c)
        \/ GetUserResolves(c)
        \/ HandleStart(c)
        \/ HandleAdvance(c)

SpecConcurrent == Init /\ [][ConcurrentNext]_vars

(* --------------------- stateless edge function ------------------------ *)

\* x || d of JavaScript, for a number x.
OrDefault(x, d) == IF x = 0 THEN d ELSE x

\* The JSON of a 200 response to advance, as the hook reads it; a field the
\* response lacks is <<>>.
Data(status, current_round, max_rounds, accuracy, loss, total_samples, nodes) ==
    [ok |-> TRUE, status |-> status, current_round |-> current_round,
     max_rounds |-> max_rounds, accuracy |-> accuracy, loss |-> loss,
     total_samples |-> total_samples, nodes |-> nodes]

\* A response whose status is not 2xx.
ErrorData ==
    [ok |-> FALSE, status |-> "", current_round |-> 0, max_rounds |-> 0,
     accuracy |-> <<>>, loss |-> <<>>, total_samples |-> <<>>, nodes |-> <<>>]

\* The advance handler of the stateless function, from the parsed body on.
StatelessAdvance(body, rnd) ==
    IF body.round_id = <<>> THEN ErrorData
    ELSE IF body.is_paused
    THEN Data("paused", body.current_round, body.max_rounds, <<>>, <<>>, <<>>, body.nodes)
    ELSE IF body.current_round >= body.max_rounds
    THEN Data("completed", body.current_round, body.max_rounds, <<>>, <<>>, <<>>, body.nodes)
    ELSE LET progress == simulateRoundProgressPure(
                             OrDefault(body.current_round, 0),
                             OrDefault(body.max_rounds, DefaultMaxRounds),
                             body.nodes, rnd)
         IN Data(progress.status, progress.current_round, body.max_rounds,
                 <<progress.accuracy>>, <<progress.loss>>,
                 <<progress.total_samples>>, progress.nodes)

(* ----------------------------- client hook ---------------------------- *)

\* Number of startTraining calls in a behaviour.
MaxStarts == 2

\* Largest maxRounds passed to startTraining.
MaxRoundsHook == 2

\* Number of Math.random() streams behind the responses the hook receives.
NumHookStreams == 1

HookStreams ==
    { [j \in 1..DrawsPerRound |-> Draw(i, j)] : i \in 1..NumHookStreams }

\* data.session of the start response, as the hook stores it.
ToClient(session) ==
    [status |-> session.status,
     current_round |-> session.current_round,
     max_rounds |-> session.max_rounds,
     accuracy |-> <<session.accuracy>>,
     loss |-> <<session.loss>>,
     total_samples |-> <<session.total_samples>>,
     nodes |-> session.nodes]

\* The session object advanceTraining builds from the response data.
SessionFromData(data) ==
    [status |-> data.status,
     current_round |-> data.current_round,
     max_rounds |-> data.max_rounds,
     accuracy |-> data.accuracy,
     loss |-> data.loss,
     total_samples |-> data.total_samples,
     nodes |-> data.nodes]

\* The body advanceTraining sends, built from the state its closure holds.
AdvanceBody(closure) ==
    LET session == CHOOSE session \in closure.session : TRUE
    IN [round_id |-> closure.roundId,
        current_round |-> session.current_round,
        max_rounds |-> session.max_rounds,
        nodes |-> session.nodes,
        is_paused |-> (session.status = "paused")]

FreeSlots == { k \in 1..MaxInFlight : calls[k].kind = "none" }

\* calls with one more suspended call.
Suspend(call) ==
    LET k == CHOOSE k \in FreeSlots : \A other \in FreeSlots : k <= other
    IN [calls EXCEPT ![k] = call]

\* startTraining(maxRounds), up to `await supabase.auth.getSession()`.
StartTraining ==
    /\ hookLog.mounted
    /\ FreeSlots # {}
    /\ hookLog.starts < MaxStarts
    /\ \E maxRounds \in 1..MaxRoundsHook :
          calls' = Suspend([kind |-> "start", phase |-> "getSession",
                            body |-> [NoBody EXCEPT !.max_rounds = maxRounds]])
    /\ hookLog' = [hookLog EXCEPT !.starts = @ + 1]
    /\ UNCHANGED <<state, rendered, pollingRef, timers>>
    /\ UNCHANGED <<serverVars, sim, inflight, twin>>

\* An interval fires: advanceTraining of the render that set the interval
\* passes its guard and runs up to `await supabase.auth.getSession()`.
Tick ==
    /\ FreeSlots # {}
    /\ \E timer \in timers :
          /\ timer.closure.roundId # <<>>
          /\ timer.closure.isTraining
          /\ timer.closure.session # {}
          /\ calls' = Suspend([kind |-> "advance", phase |-> "getSession",
                               body |-> AdvanceBody(timer.closure)])
    /\ UNCHANGED <<state, rendered, pollingRef, timers, hookLog>>
    /\ UNCHANGED <<serverVars, sim, inflight, twin>>

\* pauseTraining() of the last render, up to `await getSession()`.
PauseTraining ==
    /\ hookLog.mounted
    /\ FreeSlots # {}
    /\ rendered.roundId # <<>>
    /\ calls' = Suspend([kind |-> "pause", phase |-> "getSession",
                         body |-> [NoBody EXCEPT !.round_id = rendered.roundId]])
    /\ UNCHANGED <<state, rendered, pollingRef, timers, hookLog>>
    /\ UNCHANGED <<serverVars, sim, inflight, twin>>

\* resumeTraining() of the last render, up to `await getSession()`.
ResumeTraining ==
    /\ hookLog.mounted
    /\ FreeSlots # {}
    /\ rendered.roundId # <<>>
    /\ calls' = Suspend([kind |-> "resume", phase |-> "getSession",
                         body |-> [NoBody EXCEPT !.round_id = rendered.roundId]])
    /\ UNCHANGED <<state, rendered, pollingRef, timers, hookLog>>
    /\ UNCHANGED <<serverVars, sim, inflight, twin>>

\* resetTraining(): clears the interval pollingRef holds and drops the session.
ResetTraining ==
    /\ hookLog.mounted
    /\ state # InitialState \/ pollingRef # {}
    /\ timers' = timers \ pollingRef
    /\ pollingRef' = {}
    /\ state' = [state EXCEPT !.isTraining = FALSE, !.roundId = <<>>, !.session = {}]
    /\ hookLog' = [hookLog EXCEPT !.halted = TRUE, !.paused = FALSE, !.reset = TRUE]
    /\ UNCHANGED <<rendered, calls>>
    /\ UNCHANGED <<serverVars, sim, inflight, twin>>

\* getSession() resolves with a session in call k, which sends its request.
GetSessionResolves(k) ==
    /\ calls[k].phase = "getSession"
    /\ calls' = [calls EXCEPT ![k].phase = "fetch"]
    /\ UNCHANGED <<state, rendered, pollingRef, timers, hookLog>>
    /\ UNCHANGED <<serverVars, sim, inflight, twin>>

\* The start response arrives: the stateless function's session literal
\* under a new round id.
StartResponse(k) ==
    /\ hookLog.mounted
    /\ calls[k].kind = "start"
    /\ calls[k].phase = "fetch"
    /\ state' = [state EXCEPT
                    !.isTraining = TRUE,
                    !.roundId = <<hookLog.ids + 1>>,
                    !.session = {ToClient(NewSession(MaxRoundsOf(<<calls[k].body.max_rounds>>)))}]
    /\ calls' = [calls EXCEPT ![k] = NoCall]
    /\ hookLog' = [hookLog EXCEPT !.ids = @ + 1, !.halted = FALSE,
                                  !.paused = FALSE, !.reset = FALSE]
    /\ UNCHANGED <<rendered, pollingRef, timers>>
    /\ UNCHANGED <<serverVars, sim, inflight, twin>>

\* Mutant of AdvanceResponse: isTraining stays true whatever the status.
AdvanceResponse_KeepTraining(k) ==
    /\ hookLog.mounted
    /\ calls[k].kind = "advance"
    /\ calls[k].phase = "fetch"
    /\ \E rnd \in HookStreams :
          LET data == StatelessAdvance(calls[k].body, rnd)
          IN /\ data.ok
             /\ state' = [state EXCEPT
                             !.session = {SessionFromData(data)},
                             !.isTraining = TRUE]
             /\ hookLog' = [hookLog EXCEPT
                               !.halted = IF data.status \in {"completed", "paused"}
                                          THEN TRUE ELSE @]
    /\ calls' = [calls EXCEPT ![k] = NoCall]
    /\ UNCHANGED <<rendered, pollingRef, timers>>
    /\ UNCHANGED <<serverVars, sim, inflight, twin>>

\* The advance response arrives with status 200: the session is replaced by
\* the response data and isTraining follows data.status.
AdvanceResponse(k) ==
    /\ hookLog.mounted
    /\ calls[k].kind = "advance"
    /\ calls[k].phase = "fetch"
    /\ \E rnd \in HookStreams :
          LET data == StatelessAdvance(calls[k].body, rnd)
          IN /\ data.ok
             /\ state' = [state EXCEPT
                             !.session = {SessionFromData(data)},
                             !.isTraining = (data.status = "running")]
             /\ hookLog' = [hookLog EXCEPT
                               !.halted = IF data.status \in {"completed", "paused"}
                                          THEN TRUE ELSE @]
    /\ calls' = [calls EXCEPT ![k] = NoCall]
    /\ UNCHANGED <<rendered, pollingRef, timers>>
    /\ UNCHANGED <<serverVars, sim, inflight, twin>>

\* The pause response arrives with status 200.
PauseResponse(k) ==
    /\ hookLog.mounted
    /\ calls[k].kind = "pause"
    /\ calls[k].phase = "fetch"
    /\ state' = [state EXCEPT
                    !.isTraining = FALSE,
                    !.session = { [session EXCEPT !.status = "paused"] : session \in @ }]
    /\ calls' = [calls EXCEPT ![k] = NoCall]
    /\ hookLog' = [hookLog EXCEPT !.halted = TRUE, !.paused = TRUE]
    /\ UNCHANGED <<rendered, pollingRef, timers>>
    /\ UNCHANGED <<serverVars, sim, inflight, twin>>

\* The resume response arrives with status 200.
ResumeResponse(k) ==
    /\ hookLog.mounted
    /\ calls[k].kind = "resume"
    /\ calls[k].phase = "fetch"
    /\ state' = [state EXCEPT
                    !.isTraining = TRUE,
                    !.session = { [session EXCEPT !.status = "running"] : session \in @ }]
    /\ calls' = [calls EXCEPT ![k] = NoCall]
    /\ hookLog' = [hookLog EXCEPT !.halted = FALSE, !.paused = FALSE]
    /\ UNCHANGED <<rendered, pollingRef, timers>>
    /\ UNCHANGED <<serverVars, sim, inflight, twin>>

\* Call k ends without a usable response (no auth session, a fetch that
\* throws, a status that is not 2xx): the session state is left as it is.
RequestFails(k) ==
    /\ calls[k].kind # "none"
    /\ calls' = [calls EXCEPT ![k] = NoCall]
    /\ UNCHANGED <<state, rendered, pollingRef, timers, hookLog>>
    /\ UNCHANGED <<serverVars, sim, inflight, twin>>

\* A response arrives after the component was unmounted: its setState is
\* dropped.
ResponseAfterUnmount(k) ==
    /\ ~hookLog.mounted
    /\ calls[k].phase = "fetch"
    /\ calls' = [calls EXCEPT ![k] = NoCall]
    /\ UNCHANGED <<state, rendered, pollingRef, timers, hookLog>>
    /\ UNCHANGED <<serverVars, sim, inflight, twin>>

\* Mutant of RenderAndRunEffect: the effect has no cleanup and does not clear
\* the interval it replaces.
RenderAndRunEffect_NoCleanup ==
    /\ hookLog.mounted
    /\ rendered # state
    /\ rendered' = state
    /\ IF state.isTraining /\ state.roundId # <<>>
       THEN /\ timers' = timers \cup {[closure |-> state]}
            /\ pollingRef' = {[closure |-> state]}
       ELSE /\ timers' = timers
            /\ pollingRef' = {}
    /\ UNCHANGED <<state, calls, hookLog>>
    /\ UNCHANGED <<serverVars, sim, inflight, twin>>

\* React renders the changed state and runs the polling effect: the cleanup
\* of the previous run clears the interval pollingRef holds, then an
\* interval calling this render's advanceTraining is set when isTraining
\* and roundId are set, else pollingRef is cleared.
RenderAndRunEffect ==
    /\ hookLog.mounted
    /\ rendered # state
    /\ rendered' = state
    /\ IF state.isTraining /\ state.roundId # <<>>
       THEN /\ timers' = (timers \ pollingRef) \cup {[closure |-> state]}
            /\ pollingRef' = {[closure |-> state]}
       ELSE /\ timers' = timers \ pollingRef
            /\ pollingRef' = {}
    /\ UNCHANGED <<state, calls, hookLog>>
    /\ UNCHANGED <<serverVars, sim, inflight, twin>>

\* The component unmounts: the cleanup of the polling effect clears the
\* interval pollingRef holds.
Unmount ==
    /\ hookLog.mounted
    /\ timers' = timers \ pollingRef
    /\ hookLog' = [hookLog EXCEPT !.mounted = FALSE]
    /\ UNCHANGED <<state, rendered, pollingRef, calls>>
    /\ UNCHANGED <<serverVars, sim, inflight, twin>>

HookNext ==
    \/ StartTraining
    \/ Tick
    \/ PauseTraining
    \/ ResumeTraining
    \/ ResetTraining
    \/ RenderAndRunEffect
    \/ Unmount
    \/ \E k \in 1..MaxInFlight :
          \/ ResponseAfterUnmount(k)
          \/ GetSessionResolves(k)
          \/ StartResponse(k)
          \/ AdvanceResponse(k)
          \/ PauseResponse(k)
          \/ ResumeResponse(k)
          \/ RequestFails(k)

SpecHook == Init /\ [][HookNext]_vars

\* Largest maxRounds passed to startTraining in an undisturbed run.
MaxRoundsUndisturbed == 3

\* The hook in an undisturbed run: the user starts training once and then
\* leaves it alone (no pause, resume, reset or unmount), and no request
\* fails.
StartOnce ==
    /\ hookLog.mounted
    /\ FreeSlots # {}
    /\ hookLog.starts = 0
    /\ \E maxRounds \in 1..MaxRoundsUndisturbed :
          calls' = Suspend([kind |-> "start", phase |-> "getSession",
                            body |-> [NoBody EXCEPT !.max_rounds = maxRounds]])
    /\ hookLog' = [hookLog EXCEPT !.starts = @ + 1]
    /\ UNCHANGED <<state, rendered, pollingRef, timers>>
    /\ UNCHANGED <<serverVars, sim, inflight, twin>>

UndisturbedNext ==
    \/ StartOnce
    \/ Tick
    \/ RenderAndRunEffect
    \/ \E k \in 1..MaxInFlight :
          \/ GetSessionResolves(k)
          \/ StartResponse(k)
          \/ AdvanceResponse(k)

\* The interval keeps firing while it is set, React renders every state
\* change, getSession resolves and every request is answered.
UndisturbedFairness ==
    /\ WF_vars(Tick)
    /\ WF_vars(RenderAndRunEffect)
    /\ \A k \in 1..MaxInFlight :
          /\ WF_vars(GetSessionResolves(k))
          /\ WF_vars(StartResponse(k))
          /\ WF_vars(AdvanceResponse(k))

SpecHookFair == Init /\ [][UndisturbedNext]_vars /\ UndisturbedFairness

(* --------------------------- the two variants ------------------------- *)

\* Largest maxRounds passed to startTraining when the variants run side by
\* side.
MaxRoundsTwin == 3

\* The JSON of the stateful function's response to advance, as the hook
\* reads it.
DataOfReply(reply) ==
    IF reply.code = 200 /\ reply.session # {}
    THEN LET session == CHOOSE session \in reply.session : TRUE
         IN Data(session.status, session.current_round, session.max_rounds,
                 <<session.accuracy>>, <<session.loss>>,
                 <<session.total_samples>>, session.nodes)
    ELSE ErrorData

\* setState of startTraining on a 200 response.
AfterStart(prev, roundId, session) ==
    [prev EXCEPT !.isTraining = TRUE,
                 !.roundId = <<roundId>>,
                 !.session = {ToClient(session)}]

\* setState of advanceTraining on a 200 response; the interval does not
\* call the server when isTraining is false.
AfterAdvance(prev, data) ==
    IF prev.isTraining /\ prev.roundId # <<>> /\ prev.session # {}
    THEN [prev EXCEPT !.session = {SessionFromData(data)},
                      !.isTraining = (data.status = "running")]
    ELSE prev

\* setState of pauseTraining on a 200 response.
AfterPause(prev) ==
    [prev EXCEPT !.isTraining = FALSE,
                 !.session = { [session EXCEPT !.status = "paused"] : session \in @ }]

\* setState of resumeTraining on a 200 response.
AfterResume(prev) ==
    [prev EXCEPT !.isTraining = TRUE,
                 !.session = { [session EXCEPT !.status = "running"] : session \in @ }]

\* startTraining(maxRounds) in both variants, from the call to the render
\* that follows the response.
TwinStart ==
    /\ state.roundId = <<>>
    /\ twin.roundId = <<>>
    /\ \E maxRounds \in 1..MaxRoundsTwin, roundId \in UUIDs \ DOMAIN trainingSessions :
          LET req == Request("POST", "start", TRUE, <<>>, <<maxRounds>>)
              session == NewSession(MaxRoundsOf(<<maxRounds>>))
          IN /\ state' = AfterStart(state, roundId, session)
             /\ trainingSessions' = Put(trainingSessions, roundId, session)
             /\ response' = [SessionReply(req, roundId, session) EXCEPT
                                !.status = "success",
                                !.message = "Federated training started"]
             /\ advanceRun' = [id |-> <<roundId>>, count |-> 0]
             /\ twin' = AfterStart(twin, roundId, session)
    /\ UNCHANGED <<pauseSeq, sim, inflight, rendered, pollingRef, timers, calls, hookLog>>

\* One firing of the interval in both variants: advanceTraining from the
\* call to the render that follows the response.
TwinAdvance ==
    /\ \/ state.isTraining /\ state.roundId # <<>> /\ state.session # {}
       \/ twin.isTraining /\ twin.roundId # <<>> /\ twin.session # {}
    /\ \E rndStateless \in HookStreams, rndStateful \in RandomStreams :
          LET polls == twin.isTraining /\ twin.roundId # <<>> /\ twin.session # {}
              rid == twin.roundId
              req == Request("POST", "advance", TRUE, rid, <<>>)
              after == IF polls THEN AdvanceStore(trainingSessions, rid, rndStateful)
                       ELSE trainingSessions
              reply == AdvanceReply(req, trainingSessions, after)
          IN /\ state' = IF state.session # {}
                         THEN AfterAdvance(state, StatelessAdvance(AdvanceBody(state), rndStateless))
                         ELSE state
             /\ trainingSessions' = after
             /\ response' = IF polls THEN reply ELSE response
             /\ advanceRun' = IF polls THEN RunAfterAdvance(advanceRun, rid) ELSE advanceRun
             /\ pauseSeq' = IF polls THEN SeqAfterAdvance(pauseSeq, rid) ELSE pauseSeq
             /\ twin' = IF polls THEN AfterAdvance(twin, DataOfReply(reply)) ELSE twin
    /\ UNCHANGED <<sim, inflight, rendered, pollingRef, timers, calls, hookLog>>

\* pauseTraining() in both variants.
TwinPause ==
    /\ state.roundId # <<>>
    /\ twin.roundId # <<>>
    /\ LET rid == twin.roundId
           req == Request("POST", "pause", TRUE, rid, <<>>)
       IN /\ state' = AfterPause(state)
          /\ trainingSessions' = PauseStore(trainingSessions, rid)
          /\ response' = PauseReply(req)
          /\ advanceRun' = RunAfterPause(advanceRun, rid)
          /\ pauseSeq' = SeqAfterPause(pauseSeq, rid, trainingSessions[rid[1]])
          /\ twin' = AfterPause(twin)
    /\ UNCHANGED <<sim, inflight, rendered, pollingRef, timers, calls, hookLog>>

\* resumeTraining() in both variants.
TwinResume ==
    /\ state.roundId # <<>>
    /\ twin.roundId # <<>>
    /\ LET rid == twin.roundId
           req == Request("POST", "resume", TRUE, rid, <<>>)
       IN /\ state' = AfterResume(state)
          /\ trainingSessions' = ResumeStore(trainingSessions, rid)
          /\ response' = ResumeReply(req)
          /\ pauseSeq' = SeqAfterResume(pauseSeq, rid)
          /\ twin' = AfterResume(twin)
    /\ UNCHANGED <<advanceRun, sim, inflight, rendered, pollingRef, timers, calls, hookLog>>

TwinNext ==
    \/ TwinStart
    \/ TwinAdvance
    \/ TwinPause
    \/ TwinResume

SpecTwin == Init /\ [][TwinNext]_vars

(* ------------------------------ claims -------------------------------- *)

\* The last request was served by the named POST handler for round id rid.
Served(resp, action, rid) ==
    /\ resp.req.action = action
    /\ resp.req.method = "POST"
    /\ resp.req.authed
    /\ resp.req.json
    /\ resp.req.round_id = rid

\* C1: every session in the store stays in the store and its current_round
\* never decreases, whatever request is served.
C1_RoundNeverDecreases ==
    [][\A id \in DOMAIN trainingSessions :
          /\ id \in DOMAIN trainingSessions'
          /\ trainingSessions'[id].current_round >= trainingSessions[id].current_round]_vars

\* C1 witness: a session has been advanced twice, paused in between or after.
C1_Witness ==
    \E id \in DOMAIN trainingSessions :
        /\ trainingSessions[id].current_round >= 2
        /\ trainingSessions[id].status = "paused"

\* C2: an advance request on a session that is completed leaves the stored
\* session as it was and replies with it; on a session that is not paused and
\* has current_round >= max_rounds it changes nothing but the status, which
\* becomes completed.
C2_CompletedAdvanceIdempotent ==
    [][\A id \in DOMAIN trainingSessions :
          LET before == trainingSessions[id]
              after == trainingSessions'[id]
          IN Served(response', "advance", <<id>>) =>
               /\ before.status = "completed" =>
                    /\ after = before
                    /\ response'.session = {before}
                    /\ response'.code = 200
               /\ (before.status # "paused" /\ before.current_round >= before.max_rounds) =>
                    after = [before EXCEPT !.status = "completed"]]_vars

\* C2 witness: a session started with max_rounds >= 1 has been served more
\* advance requests than it has rounds.
C2_Witness ==
    /\ advanceRun.id # <<>>
    /\ Served(response, "advance", advanceRun.id)
    /\ trainingSessions[advanceRun.id[1]].max_rounds >= 1
    /\ advanceRun.count > trainingSessions[advanceRun.id[1]].max_rounds
    /\ trainingSessions[advanceRun.id[1]].status = "completed"

\* C3: an advance request on a paused session leaves the whole store as it
\* was, and the reply carries the stored session, status paused included.
C3_PausedAdvanceFrozen ==
    [][\A id \in DOMAIN trainingSessions :
          (trainingSessions[id].status = "paused" /\ Served(response', "advance", <<id>>)) =>
             /\ trainingSessions' = trainingSessions
             /\ response'.session = {trainingSessions[id]}
             /\ response'.status = "paused"
             /\ response'.code = 200]_vars

\* C3 witness: start, pause, advance: the reply says paused at round 0.
C3_Witness ==
    /\ response.req.action = "advance"
    /\ response.message = "Training is paused"
    /\ \E id \in DOMAIN trainingSessions :
          /\ response.round_id = <<id>>
          /\ trainingSessions[id].status = "paused"
          /\ trainingSessions[id].current_round = 0
          /\ trainingSessions[id].max_rounds >= 1

\* C4: after pause on a running session at round r < max_rounds the session is
\* paused at round r; after the resume that follows it is running at round r;
\* after the advance that follows it is at round r + 1, completed if
\* r + 1 >= max_rounds and running otherwise.
C4_PauseResumeAdvance ==
    pauseSeq.phase # 0 =>
        /\ pauseSeq.id # <<>>
        /\ pauseSeq.id[1] \in DOMAIN trainingSessions
        /\ LET session == trainingSessions[pauseSeq.id[1]]
               r == pauseSeq.round
           IN /\ pauseSeq.phase = 1 =>
                    session.status = "paused" /\ session.current_round = r
              /\ pauseSeq.phase = 2 =>
                    session.status = "running" /\ session.current_round = r
              /\ pauseSeq.phase = 3 =>
                    /\ session.current_round = r + 1
                    /\ session.status = IF r + 1 >= session.max_rounds
                                        THEN "completed" ELSE "running"

\* C4 witness: the sequence has run to its end on a session that had already
\* been advanced, and the session is still running.
C4_Witness ==
    /\ pauseSeq.phase = 3
    /\ pauseSeq.round >= 1
    /\ trainingSessions[pauseSeq.id[1]].status = "running"

\* C5: after start with max_rounds = N >= 1 and k advance requests without a
\* pause, current_round = min(k, N), and the status is running while k < N
\* and completed once k >= N.
C5_RoundsAfterAdvances ==
    advanceRun.id # <<>> =>
        /\ advanceRun.id[1] \in DOMAIN trainingSessions
        /\ LET session == trainingSessions[advanceRun.id[1]]
               N == session.max_rounds
               k == advanceRun.count
           IN N >= 1 =>
                /\ session.current_round = Min(k, N)
                /\ session.status = IF k < N THEN "running" ELSE "completed"

\* C5 witness: start with max_rounds = 3 and three advance requests.
C5_Witness ==
    /\ advanceRun.id # <<>>
    /\ advanceRun.count = 3
    /\ trainingSessions[advanceRun.id[1]].max_rounds = 3
    /\ trainingSessions[advanceRun.id[1]].current_round = 3
    /\ trainingSessions[advanceRun.id[1]].status = "completed"

\* C6: after a served start request the store holds, under the returned
\* round_id, the session of the reply: running, round 0, accuracy 0.85,
\* loss 0.5, max_rounds as requested (10 when omitted), and the four nodes
\* node1..node4 with samples 15000, 18500, 12000, 16200.
C6_StartSeedsSession ==
    (Served(response, "start", <<>>) /\ response.code = 200) =>
        /\ response.round_id # <<>>
        /\ response.round_id[1] \in DOMAIN trainingSessions
        /\ LET session == trainingSessions[response.round_id[1]]
           IN /\ response.session = {session}
              /\ session.status = "running"
              /\ session.current_round = 0
              /\ session.accuracy = 8500
              /\ session.loss = 5000
              /\ session.max_rounds = IF response.req.max_rounds = <<>> THEN 10
                                      ELSE response.req.max_rounds[1]
              /\ Len(session.nodes) = 4
              /\ [i \in 1..4 |-> session.nodes[i].id] = <<"node1", "node2", "node3", "node4">>
              /\ [i \in 1..4 |-> session.nodes[i].samples] = <<15000, 18500, 12000, 16200>>

\* C6 witness: a start request that asked for three rounds has been served.
C6_Witness ==
    /\ Served(response, "start", <<>>)
    /\ response.code = 200
    /\ response.req.max_rounds = <<3>>
    /\ response.round_id[1] \in DOMAIN trainingSessions

\* C7: an advance request whose round_id is not in the store is answered 404
\* with an error record and leaves the store as it was.
C7_AdvanceUnknownIdNotFound ==
    [][\A rid \in RoundIdArgs :
          (rid # <<>> /\ ~Has(trainingSessions, rid) /\ Served(response', "advance", rid)) =>
             /\ response'.code = 404
             /\ response'.error # ""
             /\ response'.session = {}
             /\ trainingSessions' = trainingSessions]_vars

\* C7 witness: a 404 was returned to an advance request while the store held a
\* session under another id.
C7_Witness ==
    /\ response.req.action = "advance"
    /\ response.code = 404
    /\ response.req.round_id # <<>>
    /\ ~Has(trainingSessions, response.req.round_id)
    /\ DOMAIN trainingSessions # {}

\* C8 (as claimed): a status, advance, pause or resume request that names a
\* round_id absent from the store is answered 404.
C8_AbsentIdSignalsNotFound ==
    ( /\ response.req.authed
      /\ response.req.json
      /\ response.req.round_id # <<>>
      /\ ~Has(trainingSessions, response.req.round_id)
      /\ \/ response.req.action = "status" /\ response.req.method \in {"GET", "POST"}
         \/ response.req.action \in {"advance", "pause", "resume"}
              /\ response.req.method = "POST" )
    => response.code = 404

\* C9 (as claimed): a status, advance, pause or resume request without a
\* round_id is answered 400 with an error record.
C9_MissingIdRejected ==
    ( /\ response.req.authed
      /\ response.req.json
      /\ response.req.round_id = <<>>
      /\ \/ response.req.action = "status" /\ response.req.method \in {"GET", "POST"}
         \/ response.req.action \in {"advance", "pause", "resume"}
              /\ response.req.method = "POST" )
    => (response.code = 400 /\ response.error # "")

\* C10: a request that is not OPTIONS and whose caller is not authenticated is
\* answered 401 with an error record, and the store is the same before and
\* after it.
C10_UnauthenticatedRejected ==
    [][(response'.req.method \in {"GET", "POST"} /\ ~response'.req.authed) =>
          /\ response'.code = 401
          /\ response'.error = "Unauthorized"
          /\ response'.session = {}
          /\ trainingSessions' = trainingSessions]_vars

\* C10 witness: an unauthenticated pause of a stored running session was
\* answered 401.
C10_Witness ==
    /\ response.code = 401
    /\ response.req.action = "pause"
    /\ response.req.method = "POST"
    /\ Has(trainingSessions, response.req.round_id)
    /\ trainingSessions[response.req.round_id[1]].status = "running"

\* The sum of the samples of four nodes, term by term.
SampleSum4(nodes) ==
    nodes[1].samples + nodes[2].samples + nodes[3].samples + nodes[4].samples

\* C11: every stored session has total_samples equal to the sum of its nodes'
\* samples (start seeds that sum, every simulated round recomputes it), and a
\* round simulated by the stateless function from a stored session's
\* current_round, max_rounds and nodes returns total_samples equal to the sum
\* of the samples of the nodes it returns.
C11_TotalSamplesIsNodeSum ==
    \A id \in DOMAIN trainingSessions :
        LET session == trainingSessions[id]
        IN /\ Len(session.nodes) = 4
           /\ session.total_samples = SampleSum4(session.nodes)
           /\ \A rnd \in RandomStreams :
                 LET out == simulateRoundProgressPure(session.current_round,
                                                      session.max_rounds,
                                                      session.nodes, rnd)
                 IN /\ Len(out.nodes) = 4
                    /\ out.total_samples = SampleSum4(out.nodes)

\* C11 witness: two rounds have been simulated for a session.
C11_Witness ==
    /\ response.req.action = "advance"
    /\ response.code = 200
    /\ \E id \in DOMAIN trainingSessions :
          /\ trainingSessions[id].current_round = 2
          /\ trainingSessions[id].status = "running"

\* C14: a stored session whose max_rounds is positive has
\* 0 <= current_round <= max_rounds.
C14_RoundWithinBounds ==
    \A id \in DOMAIN trainingSessions :
        trainingSessions[id].max_rounds >= 1 =>
            /\ trainingSessions[id].current_round >= 0
            /\ trainingSessions[id].current_round <= trainingSessions[id].max_rounds

\* C14 witness: a session that reached its last round was paused and resumed,
\* so it is running at current_round = max_rounds.
C14_Witness ==
    \E id \in DOMAIN trainingSessions :
        /\ trainingSessions[id].max_rounds >= 2
        /\ trainingSessions[id].current_round = trainingSessions[id].max_rounds
        /\ trainingSessions[id].status = "running"

\* C15 (as claimed): every stored session has a positive max_rounds.
C15_MaxRoundsPositive ==
    \A id \in DOMAIN trainingSessions : trainingSessions[id].max_rounds >= 1

\* C18 (as claimed): a session that has been started and not yet advanced has
\* total_samples zero.
C18_TotalSamplesZeroBeforeAdvance ==
    (advanceRun.id # <<>> /\ advanceRun.count = 0) =>
        trainingSessions[advanceRun.id[1]].total_samples = 0

\* C18 (amended): a session that has been started and not yet advanced has
\* total_samples 61700, the sum of the samples of its four seeded nodes, and
\* the first advance leaves total_samples at that sum.
C18_TotalSamplesSeeded ==
    (advanceRun.id # <<>> /\ advanceRun.count <= 1) =>
        LET session == trainingSessions[advanceRun.id[1]]
        IN /\ session.total_samples = 61700
           /\ session.total_samples = SampleSum4(session.nodes)

\* C18 witness: a start request has just been served.
C18_Witness ==
    /\ Served(response, "start", <<>>)
    /\ response.code = 200
    /\ advanceRun.id = response.round_id
    /\ advanceRun.count = 0
    /\ trainingSessions[advanceRun.id[1]].current_round = 0

\* C19: an authenticated status, nodes or health request leaves the store as
\* it was; status for a stored id replies 200 with that session, and nodes
\* replies with the stored session's nodes, or with the seeded nodes when the
\* id is absent or unknown.
C19_ReadsLeaveStore ==
    [][LET req == response'.req
       IN (req.authed /\ req.method \in {"GET", "POST"}
                      /\ req.action \in {"status", "nodes", "health"}) =>
            /\ trainingSessions' = trainingSessions
            /\ (req.action = "status" /\ Has(trainingSessions, req.round_id)) =>
                 /\ response'.code = 200
                 /\ response'.round_id = req.round_id
                 /\ response'.session = {trainingSessions[req.round_id[1]]}
            /\ req.action = "nodes" =>
                 /\ response'.code = 200
                 /\ response'.nodes =
                       IF Has(trainingSessions, req.round_id)
                       THEN trainingSessions[req.round_id[1]].nodes
                       ELSE << [id |-> "node1", name |-> "Node Alpha", status |-> "active",
                                accuracy |-> 9250, samples |-> 15000, contribution |-> 0],
                               [id |-> "node2", name |-> "Node Beta", status |-> "active",
                                accuracy |-> 9410, samples |-> 18500, contribution |-> 0],
                               [id |-> "node3", name |-> "Node Gamma", status |-> "syncing",
                                accuracy |-> 9180, samples |-> 12000, contribution |-> 0],
                               [id |-> "node4", name |-> "Node Delta", status |-> "idle",
                                accuracy |-> 9320, samples |-> 16200, contribution |-> 0] >>]_vars

\* C19 witness: status has been answered for a session already advanced.
C19_Witness ==
    /\ response.req.action = "status"
    /\ response.code = 200
    /\ \E session \in response.session : session.current_round >= 1
    /\ Has(trainingSessions, response.req.round_id)
    /\ response.session = {trainingSessions[response.req.round_id[1]]}

\* C12: after a simulated round every node's accuracy lies in [0.85, 0.99],
\* whatever the accuracy was before the round and whatever was drawn.
C12_NodeAccuracyClamped ==
    sim.rounds >= 1 =>
        \A session \in sim.session :
            \A i \in 1..Len(session.nodes) :
                /\ session.nodes[i].accuracy >= 8500
                /\ session.nodes[i].accuracy <= 9900

\* C12 witness: nodes that held accuracy 1.0 have been through one round and
\* the first of them holds 0.99.
C12_Witness ==
    /\ sim.prior = 10000
    /\ sim.rounds = 1
    /\ \E session \in sim.session :
          /\ Len(session.nodes) = 4
          /\ session.nodes[1].accuracy = 9900

\* C13: after a simulated round, whose number is in 1..max_rounds, the global
\* accuracy is at most 0.98 and the loss is at least 0.
C13_GlobalAccuracyLossBounded ==
    sim.rounds >= 1 =>
        \A session \in sim.session :
            /\ session.current_round \in 1..session.max_rounds
            /\ session.accuracy <= 9800
            /\ session.loss >= 0

\* C13 witness: the last of three rounds was simulated by the stateless
\* function with the largest accuracy noise and the smallest loss noise.
C13_Witness ==
    /\ sim.variant = "stateless"
    /\ sim.rounds = 3
    /\ \E session \in sim.session :
          /\ session.current_round = session.max_rounds
          /\ session.accuracy = 9799
          /\ session.loss = 500

\* C20: with advance requests of several callers in flight at once, the
\* advances processed since start are all counted: the stored current_round
\* is min(processed, max_rounds) and never exceeds max_rounds, and a caller's
\* processed advance left a round above the one the store held when its
\* request arrived, unless that was already the last round.
C20_ConcurrentAdvancesCounted ==
    advanceRun.id # <<>> =>
        LET session == trainingSessions[advanceRun.id[1]]
            N == session.max_rounds
            n == advanceRun.count
        IN /\ session.current_round = (IF n <= N THEN n ELSE N)
           /\ session.current_round <= N
           /\ \A c \in Callers :
                 (inflight[c].phase = "done" /\ inflight[c].req.action = "advance"
                                             /\ inflight[c].req.round_id = advanceRun.id) =>
                    /\ inflight[c].wrote <= session.current_round
                    /\ inflight[c].wrote >=
                          (IF inflight[c].seen < N THEN inflight[c].seen + 1 ELSE N)

\* C20 witness: two advance requests arrived while the store held round 0
\* and both have been processed, one leaving round 1 and the other round 2.
C20_Witness ==
    /\ advanceRun.id # <<>>
    /\ advanceRun.count = 2
    /\ \A c \in Callers : c <= 2 =>
          /\ inflight[c].phase = "done"
          /\ inflight[c].req.action = "advance"
          /\ inflight[c].seen = 0
    /\ inflight[1].wrote = 2
    /\ inflight[2].wrote = 1
    /\ trainingSessions[advanceRun.id[1]].current_round = 2

C17_NoProgressAdvanceFrozen ==
    [][\A k \in 1..MaxInFlight :
          (/\ calls[k].kind = "advance"
           /\ calls[k].phase = "fetch"
           /\ calls'[k].kind = "none"
           /\ state' # state
           /\ calls[k].body.is_paused
                 \/ calls[k].body.current_round >= calls[k].body.max_rounds
           /\ state.roundId = calls[k].body.round_id
           /\ \E session \in state.session :
                 /\ session.current_round = calls[k].body.current_round
                 /\ session.nodes = calls[k].body.nodes)
          => \A before \in state.session :
                /\ state'.session # {}
                /\ \A after \in state'.session :
                      /\ after.current_round = before.current_round
                      /\ after.accuracy = before.accuracy
                      /\ after.loss = before.loss
                      /\ after.total_samples = before.total_samples
                      /\ after.nodes = before.nodes]_vars

\* C25 (as claimed): resume of a stored session changes it only when it is
\* paused, then setting its status to running and nothing else; a running or
\* completed session is left as it is; and the status the response reports
\* is the stored status after the call.
C25_ResumeOnlyUnpauses ==
    [][\A id \in DOMAIN trainingSessions :
          Served(response', "resume", <<id>>) =>
             /\ id \in DOMAIN trainingSessions'
             /\ trainingSessions'[id] =
                   IF trainingSessions[id].status = "paused"
                   THEN [trainingSessions[id] EXCEPT !.status = "running"]
                   ELSE trainingSessions[id]
             /\ response'.status = trainingSessions'[id].status]_vars

\* The id, name and samples of the four nodes generateNodes returns.
SeededIdentity(nodes) ==
    /\ Len(nodes) = 4
    /\ nodes[1].id = "node1" /\ nodes[1].name = "Node Alpha" /\ nodes[1].samples = 15000
    /\ nodes[2].id = "node2" /\ nodes[2].name = "Node Beta" /\ nodes[2].samples = 18500
    /\ nodes[3].id = "node3" /\ nodes[3].name = "Node Gamma" /\ nodes[3].samples = 12000
    /\ nodes[4].id = "node4" /\ nodes[4].name = "Node Delta" /\ nodes[4].samples = 16200

\* Every stored session holds the four seeded nodes, and so does the round
\* the stateless function returns for its round, max_rounds and nodes.
StoredNodesSeeded ==
    \A id \in DOMAIN trainingSessions :
        LET session == trainingSessions[id]
        IN /\ SeededIdentity(session.nodes)
           /\ \A rnd \in RandomStreams :
                 SeededIdentity(simulateRoundProgressPure(session.current_round,
                                    session.max_rounds, session.nodes, rnd).nodes)

\* C26: no request changes the max_rounds of a stored session, and the nodes
\* of every stored session are the four seeded nodes in their order, with
\* their ids, names and sample counts; the same holds for the nodes the
\* stateless function returns for a stored session's round, max_rounds and
\* nodes.
C26_MaxRoundsAndNodeIdentityFixed ==
    /\ []StoredNodesSeeded
    /\ [][\A id \in DOMAIN trainingSessions :
             /\ id \in DOMAIN trainingSessions'
             /\ trainingSessions'[id].max_rounds = trainingSessions[id].max_rounds]_vars

\* C26 witness: a session that went through two rounds has been paused, and
\* its first node's accuracy and contribution are no longer the seeded ones.
C26_Witness ==
    /\ response.req.action = "pause"
    /\ \E id \in DOMAIN trainingSessions :
          /\ response.round_id = <<id>>
          /\ trainingSessions[id].status = "paused"
          /\ trainingSessions[id].current_round = 2
          /\ trainingSessions[id].nodes[1].accuracy # 9250
          /\ trainingSessions[id].nodes[1].contribution # 0

\* C27 (as claimed): a stored session with a positive max_rounds has status
\* completed exactly when current_round >= max_rounds.
C27_CompletedIffLastRound ==
    \A id \in DOMAIN trainingSessions :
        trainingSessions[id].max_rounds >= 1 =>
            (trainingSessions[id].status = "completed"
                <=> trainingSessions[id].current_round >= trainingSessions[id].max_rounds)

\* C21 (as claimed): from a successful pause until a resume succeeds, the
\* session is reset or a start succeeds, the client-held session is paused,
\* isTraining is false and, once the state is rendered, no interval is set.
C21_PausedUntilResume ==
    hookLog.paused =>
        /\ ~state.isTraining
        /\ \A session \in state.session : session.status = "paused"
        /\ (hookLog.mounted /\ rendered = state) => timers = {}

\* C22 (as claimed): from a reset until a start succeeds the client holds
\* no session: session and roundId are null and isTraining is false.
C22_NoSessionAfterReset ==
    (hookLog.reset /\ hookLog.starts >= 1) =>
        /\ state.session = {}
        /\ state.roundId = <<>>
        /\ ~state.isTraining

\* C23 (as claimed): while the client holds the same round id, no step
\* lowers the client-held current_round.
C23_ClientRoundNeverDecreases ==
    [][(state.roundId # <<>> /\ state'.roundId = state.roundId) =>
          \A before \in state.session : \A after \in state'.session :
              after.current_round >= before.current_round]_vars

\* C29 (as claimed): isTraining is true exactly when the client holds a
\* session whose status is running, and session and roundId are both set or
\* both null.
C29_TrainingFlagMatchesSession ==
    /\ state.isTraining <=> (\E session \in state.session : session.status = "running")
    /\ (state.session = {}) <=> (state.roundId = <<>>)

\* C30: at most one interval is set, it is the one pollingRef holds, it
\* calls the advanceTraining of the last render, that render had isTraining
\* and roundId set and the component is mounted; and once the state is
\* rendered an interval is set exactly when isTraining and roundId are set.
C30_SingleTimerNoLeak ==
    /\ Cardinality(timers) <= 1
    /\ timers \subseteq pollingRef
    /\ \A timer \in timers :
          /\ hookLog.mounted
          /\ timer.closure = rendered
          /\ rendered.isTraining
          /\ rendered.roundId # <<>>
    /\ (hookLog.mounted /\ rendered = state) =>
          (timers # {} <=> (state.isTraining /\ state.roundId # <<>>))

\* C30 witness: the interval in force was set by a render that followed an
\* advance response, so the interval of the render before it was replaced.
C30_Witness ==
    /\ hookLog.mounted
    /\ \E timer \in timers :
          \E session \in timer.closure.session :
              /\ session.current_round = 1
              /\ session.status = "running"

\* The client holds the session as the start response for maxRounds left it.
StartedWith(maxRounds) ==
    \E session \in state.session :
        /\ session.status = "running"
        /\ session.current_round = 0
        /\ session.max_rounds = maxRounds

\* The client holds a completed session at round maxRounds, isTraining is
\* false, no interval is set and no request is under way.
CompletedAt(maxRounds) ==
    /\ \E session \in state.session :
          /\ session.status = "completed"
          /\ session.current_round = maxRounds
          /\ session.max_rounds = maxRounds
    /\ ~state.isTraining
    /\ timers = {}

\* C28: in an undisturbed run, either no start with maxRounds = N >= 1 ever
\* succeeds, or from some point on the client holds for good a completed
\* session at round N with isTraining false and no interval set.
C28_EventuallyCompleted ==
    \A maxRounds \in 1..MaxRoundsUndisturbed :
        \/ [](~StartedWith(maxRounds))
        \/ <>[](CompletedAt(maxRounds))

\* C28 witness: the run has completed at the last of its rounds and is at
\* rest: rendered, with no interval and no request under way.
C28_Witness ==
    /\ CompletedAt(MaxRoundsUndisturbed)
    /\ rendered = state
    /\ \A k \in 1..MaxInFlight : calls[k].kind = "none"
    /\ hookLog.starts = 1

\* What the user of the hook sees of a client state: status, current_round
\* and max_rounds of the session it holds.
Visible(client) ==
    { <<session.status, session.current_round, session.max_rounds>> :
          session \in client.session }

\* C24: after every start, advance, pause and resume issued by a sequential
\* hook, the hook that runs against the stateless function and the hook that
\* runs against the stateful function hold the same status, current_round
\* and max_rounds.
C24_VariantsAgree == Visible(state) = Visible(twin)

\* C24 witness: the session was completed, paused and resumed, so both
\* hooks hold a running session at its last round, of three.
C24_Witness ==
    /\ Visible(state) = {<<"running", MaxRoundsTwin, MaxRoundsTwin>>}
    /\ Visible(twin) = {<<"running", MaxRoundsTwin, MaxRoundsTwin>>}
    /\ \E id \in DOMAIN trainingSessions :
          /\ twin.roundId = <<id>>
          /\ trainingSessions[id].status = "running"
          /\ trainingSessions[id].current_round = MaxRoundsTwin

====
